---------------------------- MODULE Spec2Model ----------------------------
(***************************************************************************)
(* Model of the calculator's History store (app/calculation/history.py):   *)
(* the class-level list of Calculation records, its query and mutation     *)
(* operations, and its CSV persistence (save_to_csv / load_from_csv) over  *)
(* the file the store resolves inside its data directory.                  *)
(*                                                                         *)
(* Every class method is one action.  Each action records its name in      *)
(* lastOp, its argument in lastArg, what it returned in ret ("True",       *)
(* "False", "None", "value" or "raise") and any returned calculations in   *)
(* result, so that properties can speak about the call that just ran.      *)
(***************************************************************************)
EXTENDS Integers, Sequences, FiniteSets, TLC

VARIABLES history, file, dirState, lastOp, lastArg, ret, result, raised,
          out, pc, line, registry, invoked, call_count, commands_read,
          plugin_log

vars == <<history, file, dirState, lastOp, lastArg, ret, result, raised,
          out, pc, line, registry, invoked, call_count, commands_read,
          plugin_log>>

\* the application around the store: what the last command printed, where
\* the App is, the input it read, its command registry and the handlers its
\* last dispatch invoked; call_count is the number of execute_command calls
\* made so far and commands_read the number of lines read that were neither
\* blank nor the exit command; plugin_log is what load_plugins logged
appVars ==
    <<out, pc, line, registry, invoked, raised, call_count, commands_read, plugin_log>>

(***************************************************************************)
(* Bounds of the exploration.                                              *)
(***************************************************************************)
\* longest history built with add_calculation when only the in-memory
\* operations run (MemSpec)
MaxLen == 3
\* longest history built with add_calculation when the file is in play (Spec)
MaxSaved == 2
\* most rows of a file written by something other than save_to_csv
MaxRows == 2
\* most command lines read in one run of the loop
MaxCommands == 2

(***************************************************************************)
(* Decimal values.  A Decimal is coef * 10^exp.  dbl = TRUE marks the      *)
(* Decimal obtained from a binary64 float: the exact expansion of the      *)
(* double nearest to coef * 10^exp, which is a different number whenever   *)
(* coef * 10^exp has no finite binary expansion (0.1 becomes               *)
(* 0.1000000000000000055511151231257827021181583404541015625).             *)
(***************************************************************************)
Dec(c, e) == [coef |-> c, exp |-> e, dbl |-> FALSE]

Zero == Dec(0, 0)
Three == Dec(3, 0)
Five == Dec(5, 0)
Tenth == Dec(1, -1)
Half == Dec(5, -1)

RECURSIVE Pow5(_)
Pow5(n) == IF n <= 0 THEN 1 ELSE 5 * Pow5(n - 1)

\* coef * 10^exp is exactly representable as a binary float
IsDyadic(d) == d.exp >= 0 \/ d.coef % Pow5(-d.exp) = 0

\* Decimal(float(text of d)): the value pandas' numeric column parsing followed
\* by Decimal(<float>) yields
DecimalOfFloat(d) == IF d.dbl \/ IsDyadic(d) THEN d ELSE [d EXCEPT !.dbl = TRUE]

(***************************************************************************)
(* CSV cells.  A cell holding the digits of Decimal d is NumText(d)        *)
(* (str(Decimal) is lossless); Garbage is a cell that is not a number.     *)
(***************************************************************************)
NumText(d) == [numeric |-> TRUE, dec |-> d]
Garbage == [numeric |-> FALSE, dec |-> Zero]

(***************************************************************************)
(* Calculations: two operands and the __name__ of the operation.           *)
(***************************************************************************)
Calculation(a, b, op) == [a |-> a, b |-> b, operation |-> op]

operation_map == {"add", "subtract", "multiply", "divide"}

\* the calculations the callers of add_calculation supply
Calcs == { Calculation(Five, Three, "add"),
           Calculation(Tenth, Half, "add"),
           Calculation(Five, Zero, "divide") }

\* calc.perform() raises (division by zero)
PerformRaises(calc) == calc.operation = "divide" /\ calc.b.coef = 0

\* str(calc.perform()): the text of the value of a <operation> b
ResultText(calc) == [of |-> calc]

Row(a, b, op, res) ==
    [Timestamp |-> "now", First_Operand |-> a, Second_Operand |-> b,
     Operation |-> op, Result |-> res]

(***************************************************************************)
(* The persisted file: absent, present but not parseable as CSV (read_csv  *)
(* raises), or a header followed by rows.                                  *)
(***************************************************************************)
CsvFile(rows) == [exists |-> TRUE, readable |-> TRUE, rows |-> rows]
Absent == [exists |-> FALSE, readable |-> FALSE, rows |-> <<>>]
Unreadable == [exists |-> TRUE, readable |-> FALSE, rows |-> <<>>]

\* rows that something other than save_to_csv may have put in the file
ExtRows == { Row(NumText(Five), NumText(Three), "add",
                 ResultText(Calculation(Five, Zero, "divide"))),
             Row(NumText(Tenth), NumText(Half), "power",
                 ResultText(Calculation(Tenth, Half, "add"))),
             Row(Garbage, NumText(Three), "add",
                 ResultText(Calculation(Five, Three, "add"))) }

SeqsUpTo(S, n) == UNION { [1..k -> S] : k \in 0..n }

ExtFiles == {Absent, Unreadable} \cup { CsvFile(rows) : rows \in SeqsUpTo(ExtRows, MaxRows) }

(***************************************************************************)
(* Input lines and the command registry.                                   *)
(***************************************************************************)
\* what input() delivered: a line of text (leading/trailing blanks and the
\* tokens between them), or the exception it raised
Line(padded, tokens) == [kind |-> "line", padded |-> padded, tokens |-> tokens]
NoLine == [kind |-> "none", padded |-> FALSE, tokens |-> <<>>]

\* names under which commands are registered
CommandNames == {"menu", "history", "subtract", "working_plugin"}

\* the registry maps a name to the class of its handler, "none" when absent
NoCommands == [n \in CommandNames |-> "none"]

\* the exception a dispatch ended with, and the command name it carries
Error(kind, name) == [kind |-> kind, name |-> name]
NoError == Error("none", "")

(***************************************************************************)
(* Init: the class attribute history = [] and a data directory that does   *)
(* not exist yet.                                                          *)
(***************************************************************************)
Init ==
    /\ history = <<>>
    /\ file = Absent
    /\ dirState = "absent"
    /\ lastOp = "init"
    /\ lastArg = 0
    /\ ret = "None"
    /\ result = <<>>
    /\ out = <<>>
    /\ pc = "new"
    /\ line = NoLine
    /\ registry = NoCommands
    /\ invoked = <<>>
    /\ raised = NoError
    /\ call_count = 0
    /\ commands_read = 0
    /\ plugin_log = <<>>

(***************************************************************************)
(* In-memory operations.                                                   *)
(***************************************************************************)
Appended_capped(h, calculation) ==
    IF Len(h) >= 2 THEN Append(Tail(h), calculation) ELSE Append(h, calculation)

\* cls.history.append(calculation)
Appended(h, calculation) == Append(h, calculation)

add_calculation(calculation) ==
    /\ history' = Appended(history, calculation)
    /\ lastOp' = "add_calculation"
    /\ lastArg' = calculation
    /\ ret' = "None"
    /\ result' = <<>>
    /\ UNCHANGED <<file, dirState>>
    /\ UNCHANGED appVars

get_history ==
    /\ lastOp' = "get_history"
    /\ lastArg' = 0
    /\ ret' = "value"
    /\ result' = history
    /\ UNCHANGED <<history, file, dirState>>
    /\ UNCHANGED appVars

Cleared_kept(h) == h

\* cls.history.clear(), also the history a load starts from
Cleared(h) == <<>>

\* lastArg is count, the number of calculations the call logs as cleared
clear_history ==
    /\ history' = Cleared(history)
    /\ lastOp' = "clear_history"
    /\ lastArg' = Len(history)
    /\ ret' = "None"
    /\ result' = <<>>
    /\ UNCHANGED <<file, dirState>>
    /\ UNCHANGED appVars

Last_first(h) == h[1]

\* cls.history[-1]
Last(h) == h[Len(h)]

get_latest ==
    /\ lastOp' = "get_latest"
    /\ lastArg' = 0
    /\ IF history # <<>>
         THEN ret' = "value" /\ result' = <<Last(history)>>
         ELSE ret' = "None" /\ result' = <<>>
    /\ UNCHANGED <<history, file, dirState>>
    /\ UNCHANGED appVars

Lower_identity(s) == s

\* str.lower() on the names in use
Lower(s) ==
    IF s \in {"Add", "ADD"} THEN "add"
    ELSE IF s \in {"Exit", "EXIT"} THEN "exit"
    ELSE IF s \in {"Show", "SHOW"} THEN "show"
    ELSE IF s \in {"Undo", "UNDO"} THEN "undo"
    ELSE IF s \in {"Filter", "FILTER"} THEN "filter"
    ELSE s

NameMatches_anycase(calc, operation_name) == Lower(calc.operation) = Lower(operation_name)

\* calc.operation.__name__ == operation_name
NameMatches(calc, operation_name) == calc.operation = operation_name

RECURSIVE Matched(_, _, _)
Matched(h, operation_name, i) ==
    IF i > Len(h) THEN <<>>
    ELSE IF NameMatches(h[i], operation_name)
           THEN <<h[i]>> \o Matched(h, operation_name, i + 1)
           ELSE Matched(h, operation_name, i + 1)

\* the names callers look up
QueryNames == {"add", "Add", "divide"}

find_by_operation(operation_name) ==
    /\ lastOp' = "find_by_operation"
    /\ lastArg' = operation_name
    /\ ret' = "value"
    /\ result' = Matched(history, operation_name, 1)
    /\ UNCHANGED <<history, file, dirState>>
    /\ UNCHANGED appVars

InRange_upper(index, h) == index < Len(h)

\* 0 <= index < len(cls.history)
InRange(index, h) == 0 <= index /\ index < Len(h)

Pop_last(h, index) == SubSeq(h, 1, Len(h) - 1)

\* cls.history.pop(index), index counted from 0
Pop(h, index) == SubSeq(h, 1, index) \o SubSeq(h, index + 2, Len(h))

remove_at_index(index) ==
    /\ lastOp' = "remove_at_index"
    /\ lastArg' = index
    /\ IF InRange(index, history)
         THEN history' = Pop(history, index) /\ ret' = "True"
         ELSE history' = history /\ ret' = "False"
    /\ result' = <<>>
    /\ UNCHANGED <<file, dirState>>
    /\ UNCHANGED appVars

(***************************************************************************)
(* Persistence.                                                            *)
(***************************************************************************)
EnsureDir_unchecked(dir) ==
    IF dir = "absent" THEN [ok |-> TRUE, dir |-> "writable"]
    ELSE [ok |-> TRUE, dir |-> dir]

\* ensure_data_directory: what it returns and the directory it leaves behind
EnsureDir(dir) ==
    IF dir = "absent" THEN [ok |-> TRUE, dir |-> "writable"]
    ELSE IF dir = "readonly" THEN [ok |-> FALSE, dir |-> dir]
    ELSE [ok |-> TRUE, dir |-> dir]

ensure_data_directory ==
    /\ lastOp' = "ensure_data_directory"
    /\ lastArg' = 0
    /\ ret' = IF EnsureDir(dirState).ok THEN "True" ELSE "False"
    /\ dirState' = EnsureDir(dirState).dir
    /\ result' = <<>>
    /\ UNCHANGED <<history, file>>
    /\ UNCHANGED appVars

\* the dictionary appended to history_data for one calculation
SaveRow(calc) ==
    Row(NumText(calc.a), NumText(calc.b), calc.operation, ResultText(calc))

\* the loop building history_data; it stops where calc.perform() raises
RECURSIVE HistoryData(_, _, _)
HistoryData(h, i, acc) ==
    IF i > Len(h) THEN [raised |-> FALSE, rows |-> acc]
    ELSE IF PerformRaises(h[i]) THEN [raised |-> TRUE, rows |-> acc]
    ELSE HistoryData(h, i + 1, Append(acc, SaveRow(h[i])))

HasData_always(rows) == TRUE

\* "if history_data:"
HasData(rows) == rows # <<>>

Written_append(old, rows) == CsvFile(old.rows \o rows)

\* df.to_csv(file_path, index=False): the file after the write
Written(old, rows) == CsvFile(rows)

\* save_to_csv on history h, file f and directory dir: what it returns and
\* what it leaves on disk.  ioError: the write itself raises (OSError)
SaveResult(h, f, dir, ioError) ==
    LET e == EnsureDir(dir)
        d == HistoryData(h, 1, <<>>)
    IN  IF ~e.ok THEN [ret |-> "False", file |-> f, dir |-> e.dir]
        ELSE IF d.raised THEN [ret |-> "raise", file |-> f, dir |-> e.dir]
        ELSE IF HasData(d.rows)
               THEN IF ioError THEN [ret |-> "raise", file |-> f, dir |-> e.dir]
                    ELSE [ret |-> "True", file |-> Written(f, d.rows), dir |-> e.dir]
               ELSE [ret |-> "False", file |-> f, dir |-> e.dir]

save_to_csv(ioError) ==
    LET s == SaveResult(history, file, dirState, ioError)
    IN  /\ lastOp' = "save_to_csv"
        /\ lastArg' = 0
        /\ result' = <<>>
        /\ dirState' = s.dir
        /\ ret' = s.ret
        /\ file' = s.file
        /\ UNCHANGED history
        /\ UNCHANGED appVars

\* pandas infers a numeric dtype for a column only when every cell is a number
NumericFirst(rows) == \A i \in 1..Len(rows) : rows[i].First_Operand.numeric
NumericSecond(rows) == \A i \in 1..Len(rows) : rows[i].Second_Operand.numeric

\* Decimal(row[...]) raises InvalidOperation: a non-number read as a string
CellRaises(cell, numericColumn) == ~numericColumn /\ ~cell.numeric

\* Decimal(row[...]): from a float in a numeric column, from the text otherwise
CellDecimal(cell, numericColumn) ==
    IF numericColumn THEN DecimalOfFloat(cell.dec) ELSE cell.dec

\* the loop over df.iterrows(); it stops at the first row that raises
RECURSIVE LoadRows(_, _, _)
LoadRows(rows, i, acc) ==
    IF i > Len(rows) THEN [raised |-> FALSE, history |-> acc]
    ELSE IF rows[i].Operation \in operation_map
      THEN IF \/ CellRaises(rows[i].First_Operand, NumericFirst(rows))
              \/ CellRaises(rows[i].Second_Operand, NumericSecond(rows))
             THEN [raised |-> TRUE, history |-> acc]
             ELSE LoadRows(rows, i + 1,
                    Append(acc, Calculation(
                       CellDecimal(rows[i].First_Operand, NumericFirst(rows)),
                       CellDecimal(rows[i].Second_Operand, NumericSecond(rows)),
                       rows[i].Operation)))
      ELSE LoadRows(rows, i + 1, acc)

\* load_from_csv on history h and file f: what it returns and the history
\* it leaves
LoadResult(h, f) ==
    IF ~f.exists THEN [ret |-> "False", history |-> h]
    ELSE IF ~f.readable THEN [ret |-> "False", history |-> h]
    ELSE LET l == LoadRows(f.rows, 1, Cleared(h))
         IN  [ret |-> IF l.raised THEN "False" ELSE "True", history |-> l.history]

load_from_csv ==
    /\ lastOp' = "load_from_csv"
    /\ lastArg' = 0
    /\ result' = <<>>
    /\ history' = LoadResult(history, file).history
    /\ ret' = LoadResult(history, file).ret
    /\ UNCHANGED <<file, dirState>>
    /\ UNCHANGED appVars

(***************************************************************************)
(* The environment: other programs (or the user) replace or delete the     *)
(* file, and change the data directory.                                    *)
(***************************************************************************)
DirStates == {"absent", "writable", "readonly"}

ExternalWrite(f) ==
    /\ dirState # "absent"
    /\ file' = f
    /\ lastOp' = "external"
    /\ lastArg' = 0
    /\ ret' = "None"
    /\ result' = <<>>
    /\ UNCHANGED <<history, dirState>>
    /\ UNCHANGED appVars

SetDir(d) ==
    /\ d # dirState
    /\ dirState' = d
    /\ file' = IF d = "absent" THEN Absent ELSE file
    /\ lastOp' = "external"
    /\ lastArg' = 0
    /\ ret' = "None"
    /\ result' = <<>>
    /\ UNCHANGED history
    /\ UNCHANGED appVars

Indexes == -1..MaxLen

(***************************************************************************)
(* The history command (app/plugins/history_command.py).  A call takes the *)
(* store as it is (history h, file f, directory dir) and yields the store  *)
(* it leaves, the messages it printed and whether it returned or raised.   *)
(***************************************************************************)
NoCalc == Calculation(Zero, Zero, "")

\* one printed message: its fixed text and the values formatted into it
Msg(text, arg, idx, calc) ==
    [text |-> text, arg |-> arg, idx |-> idx, calc |-> calc, val |-> 0]

\* a message with a formatted number: val is the number in units of its last
\* printed digit (tenths for :.1f, hundredths for :.2f)
Stat(text, arg, idx, val) == [Msg(text, arg, idx, NoCalc) EXCEPT !.val = val]

Say(text) == Msg(text, "", 0, NoCalc)

\* "{i}: {calc.a} {operation_name} {calc.b} = {result}"
EntryLine(i, calc, operation_name) == Msg("{i}: {calc.a} {operation_name} {calc.b} = {result}", operation_name, i, calc)

Done(h, f, dir, printed, r) ==
    [history |-> h, file |-> f, dir |-> dir, out |-> printed, ret |-> r]

\* the tokens int() accepts, and the integer each stands for
IntTokens == {"-1", "0", "1", "2", "01"}

ParseInt_unsigned(token) ==
    CASE token = "-1" -> 1
      [] token = "0" -> 0
      [] token = "1" -> 1
      [] token = "2" -> 2
      [] token = "01" -> 1

\* int(token)
ParseInt(token) ==
    CASE token = "-1" -> -1
      [] token = "0" -> 0
      [] token = "1" -> 1
      [] token = "2" -> 2
      [] token = "01" -> 1

\* args[1:]
Rest(args) == SubSeq(args, 2, Len(args))

\* the printing loop of _display_history and _filter_history; it stops where
\* calc.perform() raises
RECURSIVE PrintEntries(_, _, _, _)
PrintEntries(h, i, acc, fixedName) ==
    IF i > Len(h) THEN [raised |-> FALSE, out |-> acc]
    ELSE IF PerformRaises(h[i]) THEN [raised |-> TRUE, out |-> acc]
    ELSE PrintEntries(h, i + 1,
            Append(acc, EntryLine(i - 1, h[i],
                           IF fixedName = "" THEN h[i].operation ELSE fixedName)),
            fixedName)

_display_history(args, h, f, dir) ==
    IF h = <<>> THEN Done(h, f, dir, <<Say("No calculations in history.")>>, "None")
    ELSE LET p == PrintEntries(h, 1, <<Say("Calculation History:")>>, "")
         IN  Done(h, f, dir, p.out, IF p.raised THEN "raise" ELSE "None")

\* the message _clear_history prints for the outcome of its save
ClearMessage(success) ==
    IF success THEN Say("History cleared and saved file updated.")
    ELSE Say("History cleared in memory, but there was an issue updating the file.")

_clear_history(args, h, f, dir, ioError) ==
    LET s == SaveResult(<<>>, f, dir, ioError)
    IN  IF s.ret = "raise" THEN Done(<<>>, s.file, s.dir, <<>>, "raise")
        ELSE Done(<<>>, s.file, s.dir, <<ClearMessage(s.ret = "True")>>, "None")

_save_history_nocheck(args, h, f, dir, ioError) ==
    LET s == SaveResult(h, f, dir, ioError)
    IN  IF s.ret = "True"
          THEN Done(h, s.file, s.dir, <<Say("History saved to {file_path}")>>, "None")
        ELSE IF s.ret = "False"
          THEN Done(h, s.file, s.dir, <<Say("No history to save or error occurred.")>>, "None")
        ELSE Done(h, s.file, s.dir, <<Say("Error: {e}")>>, "None")

_save_history(args, h, f, dir, ioError) ==
    LET e == EnsureDir(dir)
        s == SaveResult(h, f, e.dir, ioError)
    IN  IF ~e.ok
          THEN Done(h, f, e.dir, <<Say("Error: Data directory not accessible")>>, "None")
        ELSE IF s.ret = "True"
          THEN Done(h, s.file, s.dir, <<Say("History saved to {file_path}")>>, "None")
        ELSE IF s.ret = "False"
          THEN Done(h, s.file, s.dir, <<Say("No history to save or error occurred.")>>, "None")
        ELSE Done(h, s.file, s.dir, <<Say("Error: {e}")>>, "None")

_load_history_nocheck(args, h, f, dir) ==
    LET l == LoadResult(h, f)
    IN  IF l.ret = "True"
          THEN Done(l.history, f, dir, <<Say("History loaded from {file_path}")>>, "None")
          ELSE Done(l.history, f, dir, <<Say("Error occurred while loading history.")>>, "None")

_load_history(args, h, f, dir) ==
    IF ~f.exists
      THEN Done(h, f, dir, <<Say("Error: File not found at {file_path}")>>, "None")
    ELSE LET l == LoadResult(h, f)
         IN  IF l.ret = "True"
               THEN Done(l.history, f, dir, <<Say("History loaded from {file_path}")>>, "None")
               ELSE Done(l.history, f, dir,
                         <<Say("Error occurred while loading history.")>>, "None")

\* the message _delete_history prints after remove_at_index returned True
DeletedMessage(index) == Msg("Deleted calculation at index {index}", "", index, NoCalc)

_delete_history_resave(args, h, f, dir, ioError) ==
    IF args = <<>> \/ args[1] \notin IntTokens \/ ~InRange(ParseInt(args[1]), h)
      THEN Done(h, f, dir, <<>>, "None")
    ELSE LET index == ParseInt(args[1])
             s == SaveResult(Pop(h, index), f, dir, FALSE)
         IN  Done(Pop(h, index), s.file, s.dir, <<DeletedMessage(index)>>, "None")

_delete_history(args, h, f, dir, ioError) ==
    IF args = <<>>
      THEN Done(h, f, dir,
                <<Say("Error: Please provide an index to delete (e.g., 'delete 2')")>>,
                "None")
    ELSE IF args[1] \notin IntTokens
      THEN Done(h, f, dir,
                <<Msg("Error: '{args[0]}' is not a valid index. Please provide a number.",
                    args[1], 0, NoCalc)>>,
                "None")
    ELSE LET index == ParseInt(args[1])
         IN  IF InRange(index, h)
               THEN Done(Pop(h, index), f, dir, <<DeletedMessage(index)>>, "None")
               ELSE Done(h, f, dir,
                         <<Msg("Error: Could not delete calculation at index {index}", "", index,
                               NoCalc)>>, "None")

\* get_history_as_dataframe raises where calc.perform() raises
DataframeRaises(h) == \E i \in 1..Len(h) : PerformRaises(h[i])

Two == Dec(2, 0)
Ten == Dec(10, 0)

RECURSIVE Pow10(_)
Pow10(n) == IF n <= 0 THEN 1 ELSE 10 * Pow10(n - 1)

\* the value of Decimal d in hundredths, for d of at most two decimals
Hundredths(d) == d.coef * Pow10(d.exp + 2)

\* float(calc.perform()) in hundredths; a quotient is cut to hundredths
ResultValue(calc) ==
    CASE calc.operation = "add" -> Hundredths(calc.a) + Hundredths(calc.b)
      [] calc.operation = "subtract" -> Hundredths(calc.a) - Hundredths(calc.b)
      [] calc.operation = "multiply" -> (Hundredths(calc.a) * Hundredths(calc.b)) \div 100
      [] calc.operation = "divide" -> (100 * Hundredths(calc.a)) \div Hundredths(calc.b)

\* the columns of get_history_as_dataframe that _analyze_history reads
Dataframe(h) ==
    [i \in 1..Len(h) |-> [Operation |-> h[i].operation, Result |-> ResultValue(h[i])]]

\* the number of rows of df with operation op, and the first of them
Count(df, op) == Cardinality({ i \in 1..Len(df) : df[i].Operation = op })
FirstSeen(df, op) ==
    CHOOSE i \in 1..Len(df) :
        df[i].Operation = op /\ \A j \in 1..(i - 1) : df[j].Operation # op

\* df['Operation'].value_counts(): the operations by descending count, those
\* of equal count in the order of their first rows
value_counts(df) ==
    LET ops == { df[i].Operation : i \in 1..Len(df) }
        Before(x, y) == \/ Count(df, x) > Count(df, y)
                        \/ Count(df, x) = Count(df, y) /\ FirstSeen(df, x) < FirstSeen(df, y)
    IN  [k \in 1..Cardinality(ops) |->
            CHOOSE x \in ops : Cardinality({ y \in ops : Before(y, x) }) = k - 1]

\* n / d rounded to the nearest integer, a tie going to the even one, as the
\* format specifications :.1f and :.2f round
Rounded(n, d) ==
    LET q == n \div d
        r == n % d
    IN  IF 2 * r < d THEN q
        ELSE IF 2 * r > d THEN q + 1
        ELSE IF q % 2 = 0 THEN q ELSE q + 1

RECURSIVE SumResults(_, _)
SumResults(df, i) == IF i > Len(df) THEN 0 ELSE df[i].Result + SumResults(df, i + 1)

\* df['Result'].max() and .min()
MaxResult(df) == CHOOSE v \in { df[i].Result : i \in 1..Len(df) } : \A i \in 1..Len(df) : df[i].Result <= v
MinResult(df) == CHOOSE v \in { df[i].Result : i \in 1..Len(df) } : \A i \in 1..Len(df) : df[i].Result >= v

\* the line of the breakdown for one operation
BreakdownLine(op, count, total_calculations) ==
    Stat("  - {op}: {count} ({count/total_calculations*100:.1f}%)", op, count,
         Rounded(count * 1000, total_calculations))

\* what _analyze_history prints for a dataframe that is not empty
Analysis(df) ==
    <<Say("\nHistory Analysis:"),
      Msg("Total calculations: {total_calculations}", "", Len(df), NoCalc),
      Say("\nOperations breakdown:")>>
    \o [k \in 1..Len(value_counts(df)) |->
          BreakdownLine(value_counts(df)[k], Count(df, value_counts(df)[k]), Len(df))]
    \o <<Say("\nResults statistics:"),
         Stat("  - Average result: {avg_result:.2f}", "", 0, Rounded(SumResults(df, 1), Len(df))),
         Stat("  - Maximum result: {max_result:.2f}", "", 0, MaxResult(df)),
         Stat("  - Minimum result: {min_result:.2f}", "", 0, MinResult(df))>>

_analyze_history(args, h, f, dir) ==
    IF DataframeRaises(h) THEN Done(h, f, dir, <<>>, "raise")
    ELSE IF h = <<>>
      THEN Done(h, f, dir, <<Say("No calculations in history to analyze.")>>, "None")
    ELSE Done(h, f, dir, Analysis(Dataframe(h)), "None")

_filter_history(args, h, f, dir) ==
    IF args = <<>>
      THEN Done(h, f, dir,
                <<Say("Error: Please provide an operation to filter by (e.g., 'filter add')")>>,
                "None")
    ELSE LET operation_name == Lower(args[1])
             filtered_history == Matched(h, operation_name, 1)
             p == PrintEntries(filtered_history, 1,
                               <<Msg("Filtered History ({operation_name}):", operation_name, 0, NoCalc)>>,
                               operation_name)
         IN  IF filtered_history = <<>>
               THEN Done(h, f, dir,
                         <<Msg("No calculations found with operation '{operation_name}'.", operation_name, 0,
                               NoCalc)>>, "None")
               ELSE Done(h, f, dir, p.out, IF p.raised THEN "raise" ELSE "None")

UnknownMessage_bare(subcommand) == Say("Unknown history subcommand: '{subcommand}'")

\* the message execute prints for a subcommand that is not in subcommand_map
UnknownMessage(subcommand) == Msg("Unknown history subcommand: '{subcommand}'", subcommand, 0, NoCalc)

\* HistoryCommand.execute(*args)
HistoryExecute(args, h, f, dir, ioError) ==
    IF args = <<>> THEN _display_history(args, h, f, dir)
    ELSE LET subcommand == Lower(args[1])
             subcommand_args == Rest(args)
         IN  CASE subcommand = "show" -> _display_history(subcommand_args, h, f, dir)
               [] subcommand = "clear" -> _clear_history(subcommand_args, h, f, dir, ioError)
               [] subcommand = "save" -> _save_history(subcommand_args, h, f, dir, ioError)
               [] subcommand = "load" -> _load_history(subcommand_args, h, f, dir)
               [] subcommand = "delete" -> _delete_history(subcommand_args, h, f, dir, ioError)
               [] subcommand = "analyze" -> _analyze_history(subcommand_args, h, f, dir)
               [] subcommand = "filter" -> _filter_history(subcommand_args, h, f, dir)
               [] OTHER -> Done(h, f, dir, <<UnknownMessage(subcommand)>>, "None")

\* the argument lists the command is called with
CmdArgs ==
    { <<>>, <<"show">>, <<"SHOW">>, <<"clear">>, <<"save">>, <<"load">>,
      <<"delete">>, <<"delete", "abc">>, <<"delete", "0", "1">>,
      <<"analyze">>, <<"filter">>, <<"filter", "add">>, <<"filter", "ADD">>,
      <<"filter", "divide">>, <<"undo">>, <<"UNDO">> }
      \cup { <<"delete", t>> : t \in IntTokens }

\* one call of the history command on the store
history_command(args, ioError) ==
    LET r == HistoryExecute(args, history, file, dirState, ioError)
    IN  /\ history' = r.history
        /\ file' = r.file
        /\ dirState' = r.dir
        /\ out' = r.out
        /\ ret' = r.ret
        /\ lastOp' = "history"
        /\ lastArg' = args
        /\ result' = <<>>
        /\ UNCHANGED <<pc, line, registry, invoked, raised, call_count, commands_read>>
        /\ UNCHANGED plugin_log

\* the calculations added between calls of the command
CmdCalcs == { Calculation(Five, Three, "add"), Calculation(Five, Zero, "divide") }

\* files that cannot be loaded: not CSV at all, and a row whose operand is
\* not a number
CmdFiles ==
    { Unreadable,
      CsvFile(<<Row(Garbage, NumText(Three), "add", ResultText(Calculation(Five, Three, "add")))>>) }

\* the history command over the store, the file and the directory
CmdNext ==
    \/ \E calculation \in CmdCalcs : Len(history) < MaxSaved /\ add_calculation(calculation)
    \/ \E args \in CmdArgs, ioError \in BOOLEAN : history_command(args, ioError)
    \/ load_from_csv
    \/ \E d \in DirStates : SetDir(d)
    \/ \E f \in CmdFiles : ExternalWrite(f)

CmdSpec == Init /\ [][CmdNext]_vars

\* the calculations in the histories that are analyzed
AnalyzeCalcs ==
    { Calculation(Five, Three, "add"), Calculation(Ten, Two, "multiply"),
      Calculation(Five, Three, "subtract"), Calculation(Five, Zero, "divide") }

\* `history analyze` between additions to the history and clears of it
AnalyzeNext ==
    \/ \E calculation \in AnalyzeCalcs : Len(history) < MaxLen /\ add_calculation(calculation)
    \/ clear_history
    \/ history_command(<<"analyze">>, FALSE)

AnalyzeSpec == Init /\ [][AnalyzeNext]_vars

\* the calculations in the histories that are filtered: an operation named
\* in lower case, one named with a capital, and one whose result raises
FilterCalcs ==
    { Calculation(Five, Three, "add"), Calculation(Five, Three, "Add"),
      Calculation(Five, Zero, "divide") }

\* the ways the filter is asked for
FilterArgs ==
    { <<"filter">>, <<"filter", "add">>, <<"FILTER", "ADD">>, <<"Filter", "Add">>,
      <<"filter", "divide">> }

\* `history filter` between additions to the history
FilterNext ==
    \/ \E calculation \in FilterCalcs : Len(history) < MaxLen /\ add_calculation(calculation)
    \/ \E args \in FilterArgs : history_command(args, FALSE)

FilterSpec == Init /\ [][FilterNext]_vars

(***************************************************************************)
(* Plugin loading: App.load_plugins registers every Command subclass of    *)
(* every plugin module it can import.                                      *)
(***************************************************************************)
\* the modules pkgutil.iter_modules may yield, in the order it yields them
PluginNames ==
    <<"broken_plugin", "history_command", "menu_command", "subtract_command",
      "working_plugin">>

\* importlib.import_module raises for this module
ImportRaises(plugin_name) == plugin_name = "broken_plugin"

\* the Command subclasses among dir(plugin_module), which is sorted by name
PluginClasses(plugin_name) ==
    CASE plugin_name = "history_command" -> <<"HistoryCommand">>
      [] plugin_name = "menu_command" -> <<"MenuCommand">>
      [] plugin_name = "subtract_command" -> <<"SubtractCommand">>
      [] plugin_name = "working_plugin" -> <<"OtherCommand", "SomeCommand">>
      [] OTHER -> <<>>

\* the classes whose construction may raise
MockClasses == {"OtherCommand", "SomeCommand"}

\* plugin_name.replace("_command", "")
CommandName(plugin_name) ==
    CASE plugin_name = "history_command" -> "history"
      [] plugin_name = "menu_command" -> "menu"
      [] plugin_name = "subtract_command" -> "subtract"
      [] OTHER -> plugin_name

register_command_keep(reg, command_name, handler) ==
    IF reg[command_name] = "none" THEN [reg EXCEPT ![command_name] = handler] ELSE reg

\* CommandHandler.register_command(command_name, handler)
register_command(reg, command_name, handler) == [reg EXCEPT ![command_name] = handler]

\* the loop over dir(plugin_module): a class whose construction raises is
\* logged and skipped
RECURSIVE RegisterItems(_, _, _, _)
RegisterItems(reg, plugin_name, items, failing) ==
    IF items = <<>> THEN reg
    ELSE RegisterItems(IF Head(items) \in failing
                         THEN reg
                         ELSE register_command(reg, CommandName(plugin_name), Head(items)),
                       plugin_name, Tail(items), failing)

RECURSIVE LoadModules(_, _, _)
LoadModules_abort(reg, found, failing) ==
    IF found = <<>> THEN reg
    ELSE IF ImportRaises(Head(found)) THEN reg
    ELSE LoadModules(RegisterItems(reg, Head(found), PluginClasses(Head(found)), failing),
                     Tail(found), failing)

\* the loop over the discovered modules: a module whose import raises is
\* logged and skipped
LoadModules(reg, found, failing) ==
    IF found = <<>> THEN reg
    ELSE LoadModules(IF ImportRaises(Head(found))
                       THEN reg
                       ELSE RegisterItems(reg, Head(found), PluginClasses(Head(found)), failing),
                     Tail(found), failing)

\* the subsequence of s whose elements are in keep
RECURSIVE Filtered(_, _)
Filtered(s, keep) ==
    IF s = <<>> THEN <<>>
    ELSE IF Head(s) \in keep THEN <<Head(s)>> \o Filtered(Tail(s), keep)
         ELSE Filtered(Tail(s), keep)

\* what may be in the plugins directory
Discovered == { Filtered(PluginNames, keep) : keep \in SUBSET {PluginNames[i] : i \in 1..Len(PluginNames)} }

Loading(found, failing) == [found |-> found, failing |-> failing]

\* one record of the log: its level, its format string, the plugin it names
\* and the counts formatted into it
Log(level, text, plugin_name, n) ==
    [level |-> level, text |-> text, plugin |-> plugin_name, n |-> n, failed |-> 0]

\* the last record of load_plugins
Summary(loaded_plugins, failed_plugins) ==
    [Log("info",
         "Plugin loading complete. Successfully loaded {loaded_plugins} plugins, {failed_plugins} failed",
         "", loaded_plugins) EXCEPT !.failed = failed_plugins]

\* plugin_commands: the classes of the module that were constructed and
\* registered
PluginCommands(plugin_name, failing) ==
    Cardinality({ i \in 1..Len(PluginClasses(plugin_name)) : PluginClasses(plugin_name)[i] \notin failing })

\* what the inner loop logs for the classes of one module
RECURSIVE ItemLog(_, _, _)
ItemLog(plugin_name, items, failing) ==
    IF items = <<>> THEN <<>>
    ELSE <<IF Head(items) \in failing
             THEN Log("error", "Failed to register command {plugin_name}: {cmd_error}", plugin_name, 0)
             ELSE Log("info", "Registered command: {command_name}", plugin_name, 0)>>
         \o ItemLog(plugin_name, Tail(items), failing)

\* what one pass of the outer loop logs
ModuleLog(plugin_name, failing) ==
    <<Log("info", "Attempting to load plugin: {plugin_name}", plugin_name, 0)>>
    \o (IF ImportRaises(plugin_name)
          THEN <<Log("error", "Failed to load plugin {plugin_name}: {ie}", plugin_name, 0)>>
          ELSE ItemLog(plugin_name, PluginClasses(plugin_name), failing)
               \o <<IF PluginCommands(plugin_name, failing) > 0
                      THEN Log("info",
                               "Successfully loaded plugin {plugin_name} with {plugin_commands} commands",
                               plugin_name, PluginCommands(plugin_name, failing))
                      ELSE Log("warning",
                               "Plugin {plugin_name} loaded but no commands were registered",
                               plugin_name, 0)>>)

\* loaded_plugins and failed_plugins after the loop
LoadedPlugins(found, failing) ==
    Cardinality({ i \in 1..Len(found) :
                    ~ImportRaises(found[i]) /\ PluginCommands(found[i], failing) > 0 })
FailedPlugins(found) == Cardinality({ i \in 1..Len(found) : ImportRaises(found[i]) })

\* everything load_plugins logs after its first line
RECURSIVE LoadLog(_, _, _, _)
LoadLog(found, failing, loaded_plugins, failed_plugins) ==
    IF found = <<>>
    THEN <<Summary(loaded_plugins, failed_plugins)>>
    ELSE ModuleLog(Head(found), failing)
         \o LoadLog(Tail(found), failing, loaded_plugins, failed_plugins)

\* App.__init__: a new CommandHandler, then load_plugins
load_plugins(found, failing) ==
    /\ pc = "new"
    /\ registry' = LoadModules(NoCommands, found, failing)
    /\ plugin_log' = LoadLog(found, failing, LoadedPlugins(found, failing), FailedPlugins(found))
    /\ pc' = "loaded"
    /\ lastOp' = "load_plugins"
    /\ lastArg' = Loading(found, failing)
    /\ invoked' = <<>>
    /\ UNCHANGED <<history, file, dirState, ret, result, out, line, raised>>
    /\ UNCHANGED <<call_count, commands_read>>

(***************************************************************************)
(* The handlers and the dispatcher.                                        *)
(***************************************************************************)
\* one call of a handler's execute: its arguments and what it raised
Invocation(handler, args, kind) == [handler |-> handler, args |-> args, raises |-> kind]

\* what a dispatch left behind: what the handler did to the store and
\* printed, the exception that reached the caller, and the handler calls made
Ran(did, error, calls) == [did |-> did, raised |-> error, invoked |-> calls]

\* the operand tokens Decimal() accepts
DecimalTokens == {"5", "3"}

\* Decimal(token)
DecimalOf(token) == IF token = "5" THEN Five ELSE Three

\* Calculator.subtract(num1, num2): the calculation is recorded in the history
CalculatorSubtract(h, num1, num2) == Append(h, Calculation(num1, num2, "subtract"))

\* SubtractCommand.execute(*args)
SubtractExecute(args, h, f, dir) ==
    IF Len(args) # 2
    THEN Done(h, f, dir, <<Say("Usage: subtract <number1> <number2>")>>, "none")
    ELSE IF args[1] \notin DecimalTokens \/ args[2] \notin DecimalTokens
    THEN Done(h, f, dir, <<Say("Invalid input. Please enter valid numbers.")>>, "none")
    ELSE LET num1 == DecimalOf(args[1])
             num2 == DecimalOf(args[2])
         IN  Done(CalculatorSubtract(h, num1, num2), f, dir,
                  <<Msg("Result: {num1} - {num2} = {result}", "", 0,
                        Calculation(num1, num2, "subtract"))>>, "none")

\* MenuCommand.execute(*args)
MenuExecute(args, h, f, dir) ==
    Done(h, f, dir, <<Say("\nAvailable Commands:"), Say("\nType 'exit' to quit.")>>, "none")

\* what the execute of a mock handler may do: return, or raise
MockBehaviours == {"none", "KeyError", "Exception"}

\* the handler's execute(*args); ret is the kind of exception it raised
HandlerExecute(handler, args, h, f, dir, ioError, behav) ==
    CASE handler = "HistoryCommand" ->
           [HistoryExecute(args, h, f, dir, ioError)
              EXCEPT !.ret = IF @ = "raise" THEN "Exception" ELSE "none"]
      [] handler = "MenuCommand" -> MenuExecute(args, h, f, dir)
      [] handler = "SubtractCommand" -> SubtractExecute(args, h, f, dir)
      [] OTHER -> Done(h, f, dir, <<>>, behav)

\* command_name is a key of the registry
Registered(reg, command_name) ==
    command_name \in CommandNames /\ reg[command_name] # "none"

execute_command_swallow(reg, command_name, args, h, f, dir, ioError, behav) ==
    IF ~Registered(reg, command_name)
    THEN Ran(Done(h, f, dir, <<>>, "none"), Error("CommandNotFound", command_name), <<>>)
    ELSE LET r == HandlerExecute(reg[command_name], args, h, f, dir, ioError, behav)
         IN  Ran(r, NoError, <<Invocation(reg[command_name], args, r.ret)>>)

\* CommandHandler.execute_command(command_name, *args)
execute_command(reg, command_name, args, h, f, dir, ioError, behav) ==
    IF ~Registered(reg, command_name)
    THEN Ran(Done(h, f, dir, <<>>, "none"), Error("CommandNotFound", command_name), <<>>)
    ELSE LET r == HandlerExecute(reg[command_name], args, h, f, dir, ioError, behav)
         IN  Ran(r, Error(r.ret, ""), <<Invocation(reg[command_name], args, r.ret)>>)

(***************************************************************************)
(* App.start: the welcome lines and the menu, then the loop that reads a   *)
(* line and dispatches it.                                                 *)
(***************************************************************************)
\* input() raised
Raise(kind) == [kind |-> kind, padded |-> FALSE, tokens |-> <<>>]

\* what input() may deliver
InputEvents ==
    { Raise("KeyboardInterrupt"), Raise("EOFError"), Raise("Exception"),
      Line(FALSE, <<>>), Line(TRUE, <<>>),
      Line(FALSE, <<"exit">>), Line(TRUE, <<"EXIT">>), Line(FALSE, <<"exit", "now">>),
      Line(FALSE, <<"bogus">>), Line(FALSE, <<"menu">>), Line(FALSE, <<"working_plugin">>),
      Line(FALSE, <<"subtract", "5", "3">>), Line(FALSE, <<"subtract", "5">>),
      Line(TRUE, <<"subtract", "abc", "3">>),
      Line(FALSE, <<"history">>), Line(FALSE, <<"history", "clear">>),
      Line(FALSE, <<"history", "save">>), Line(FALSE, <<"history", "delete", "0">>) }

\* the position of the loop after a read, and what the read printed
After(position, printed) == [pc |-> position, out |-> printed]

OnKeyboardInterrupt_exit ==
    After("exited", <<Say("\nInterrupted. Enter 'exit' to quit {self.app_name}.")>>)

\* except KeyboardInterrupt
OnKeyboardInterrupt ==
    After("reading", <<Say("\nInterrupted. Enter 'exit' to quit {self.app_name}.")>>)

\* except EOFError
OnEOFError == After("exited", <<Say("\nExiting...")>>)

\* except Exception
OnException == After("reading", <<Say("An unexpected error occurred. Enter 'exit' to quit.")>>)

OnBlank_dispatch == After("dispatching", <<>>)

\* "if not user_input: continue"
OnBlank == After("reading", <<>>)

IsExit_exact(e) == e.kind = "line" /\ e.tokens = <<"exit">>

\* user_input.lower() == "exit", user_input being the stripped line
IsExit(e) == e.kind = "line" /\ Len(e.tokens) = 1 /\ Lower(e.tokens[1]) = "exit"

\* the line is neither blank nor the exit command
IsCommandLine(e) == e.kind = "line" /\ e.tokens # <<>> /\ ~IsExit(e)

\* the line adds a calculation to the history
Grows(e) == e.kind = "line" /\ Len(e.tokens) = 3 /\ e.tokens[1] = "subtract"

Caught_lookup(kind) == kind \in {"none", "CommandNotFound", "KeyError"}

\* the except clauses around execute_command take every Exception
Caught(kind) == kind \in {"none", "CommandNotFound", "KeyError", "Exception"}

\* what the except clauses around execute_command print
AfterCommand(kind, command_name) ==
    CASE kind = "none" -> <<>>
      [] kind \in {"CommandNotFound", "KeyError"} ->
           <<Msg("Unknown command: '{command_name}'. Type 'menu' to see available commands.",
                 command_name, 0, NoCalc)>>
      [] OTHER ->
           <<Msg("An error occurred while executing '{command_name}'. See logs for details.",
                 command_name, 0, NoCalc)>>

MenuFallback_silent(kind) == <<>>

\* the except clause around the menu at start
MenuFallback(kind) ==
    IF kind # "none" THEN <<Say("Type 'help' or 'menu' to see available commands.")>> ELSE <<>>

\* App.start up to the loop
start ==
    /\ pc = "loaded"
    /\ \E r \in {execute_command(registry, "menu", <<>>, history, file, dirState, FALSE, "none")} :
           /\ out' = <<Say("Welcome to {self.app_name}! Type 'menu' to see available commands, or 'exit' to quit."),
                       Say("Available commands:")>>
                     \o r.did.out
                     \o MenuFallback(r.raised.kind)
           /\ invoked' = r.invoked
           /\ raised' = r.raised
    /\ call_count' = call_count + 1
    /\ pc' = "reading"
    /\ lastOp' = "start"
    /\ lastArg' = <<>>
    /\ UNCHANGED <<history, file, dirState, ret, result, line, registry, commands_read>>
    /\ UNCHANGED plugin_log

\* one read of the loop: input(), strip, the blank and the exit tests, split
ReadLine(e) ==
    /\ pc = "reading"
    /\ LET after == CASE e.kind = "KeyboardInterrupt" -> OnKeyboardInterrupt
                      [] e.kind = "EOFError" -> OnEOFError
                      [] e.kind = "Exception" -> OnException
                      [] e.kind = "line" /\ e.tokens = <<>> -> OnBlank
                      [] IsExit(e) -> After("exited", <<Say("Exiting {self.app_name}...")>>)
                      [] OTHER -> After("dispatching", <<>>)
       IN  /\ pc' = after.pc
           /\ out' = after.out
           /\ line' = IF after.pc = "dispatching" THEN e ELSE NoLine
    /\ invoked' = <<>>
    /\ raised' = NoError
    /\ commands_read' = IF IsCommandLine(e) THEN commands_read + 1 ELSE commands_read
    /\ lastOp' = "read"
    /\ lastArg' = e
    /\ UNCHANGED <<history, file, dirState, ret, result, registry, call_count, plugin_log>>

\* the dispatch of the line just read, inside its try
Dispatch(ioError, behav) ==
    /\ pc = "dispatching"
    /\ \E r \in {execute_command(registry, line.tokens[1], Rest(line.tokens),
                                   history, file, dirState, ioError, behav)} :
           /\ history' = r.did.history
           /\ file' = r.did.file
           /\ dirState' = r.did.dir
           /\ out' = r.did.out \o AfterCommand(r.raised.kind, line.tokens[1])
           /\ invoked' = r.invoked
           /\ raised' = r.raised
           /\ pc' = IF Caught(r.raised.kind) THEN "reading" ELSE "crashed"
    /\ call_count' = call_count + 1
    /\ line' = NoLine
    /\ lastOp' = "dispatch"
    /\ lastArg' = line
    /\ UNCHANGED <<ret, result, registry, commands_read, plugin_log>>

\* the application: construction, start, and the loop
ReplNext ==
    \/ \E found \in Discovered, failing \in SUBSET MockClasses : load_plugins(found, failing)
    \/ start
    \/ \E e \in InputEvents :
          /\ Grows(e) => Len(history) < MaxSaved
          /\ IsCommandLine(e) => commands_read < MaxCommands
          /\ ReadLine(e)
    \/ \E ioError \in BOOLEAN, behav \in MockBehaviours : Dispatch(ioError, behav)

ReplSpec == Init /\ [][ReplNext]_vars

\* a dispatched command returns or raises: the handlers do not block
ReplLiveSpec ==
    ReplSpec /\ WF_vars(\E ioError \in BOOLEAN, behav \in MockBehaviours : Dispatch(ioError, behav))

\* every operation of the store, and the environment
Next ==
    \/ \E calculation \in Calcs : Len(history) < MaxSaved /\ add_calculation(calculation)
    \/ get_history
    \/ clear_history
    \/ get_latest
    \/ \E operation_name \in QueryNames : find_by_operation(operation_name)
    \/ \E index \in Indexes : remove_at_index(index)
    \/ ensure_data_directory
    \/ \E ioError \in BOOLEAN : save_to_csv(ioError)
    \/ load_from_csv
    \/ \E f \in ExtFiles : ExternalWrite(f)
    \/ \E d \in DirStates : SetDir(d)

Spec == Init /\ [][Next]_vars

\* the in-memory operations alone, on longer histories
MemNext ==
    \/ \E calculation \in Calcs : Len(history) < MaxLen /\ add_calculation(calculation)
    \/ get_history
    \/ clear_history
    \/ get_latest
    \/ \E operation_name \in QueryNames : find_by_operation(operation_name)
    \/ \E index \in Indexes : remove_at_index(index)

MemSpec == Init /\ [][MemNext]_vars

(***************************************************************************)
(* Properties of the in-memory operations.                                 *)
(***************************************************************************)

\* C1: remove_at_index(index) with index < 0 or index >= len(history)
\* returns False and leaves the history exactly as it was.
C1_RemoveOutOfRange ==
    [][(lastOp' = "remove_at_index" /\ (lastArg' < 0 \/ lastArg' >= Len(history)))
         => (ret' = "False" /\ history' = history)]_vars

\* a negative index was refused on a non-empty history
C1_Witness ==
    lastOp = "remove_at_index" /\ lastArg < 0 /\ ret = "False" /\ Len(history) >= 2

\* C2: remove_at_index(i) with 0 <= i < len(history) returns True; the new
\* history is one shorter, equal to the old one below i and to the old one
\* shifted down by one from i on.
C2_RemoveShifts ==
    [][(lastOp' = "remove_at_index" /\ 0 <= lastArg' /\ lastArg' < Len(history))
         => /\ ret' = "True"
            /\ Len(history') = Len(history) - 1
            /\ \A j \in 0..(Len(history') - 1) :
                  history'[j + 1] = IF j < lastArg' THEN history[j + 1] ELSE history[j + 2]]_vars

\* the middle entry of three was removed, leaving two different entries
C2_Witness ==
    /\ lastOp = "remove_at_index" /\ lastArg = 1 /\ ret = "True"
    /\ Len(history) = 2 /\ history[1] # history[2]

\* C3: add_calculation always appends: the length grows by one, the new
\* calculation is last, the earlier entries keep their positions (no cap,
\* no eviction); get_history returns the history as it stands.
C3_AddAppends ==
    [][/\ lastOp' = "add_calculation"
           => /\ Len(history') = Len(history) + 1
              /\ history'[Len(history')] = lastArg'
              /\ \A j \in 1..Len(history) : history'[j] = history[j]
       /\ lastOp' = "get_history"
           => /\ ret' = "value" /\ result' = history /\ history' = history]_vars

\* a third calculation was appended after two others
C3_Witness ==
    /\ lastOp = "add_calculation" /\ Len(history) = 3
    /\ history[3] = lastArg /\ history[1] # history[3]

\* C4: get_latest returns the last element of a non-empty history and None
\* for an empty one; it never raises and never modifies the history.
C4_Latest ==
    [][lastOp' = "get_latest"
         => /\ history' = history
            /\ IF history = <<>>
                 THEN ret' = "None" /\ result' = <<>>
                 ELSE ret' = "value" /\ result' = <<history[Len(history)]>>]_vars

\* the latest of several entries was returned and differs from the first
C4_Witness ==
    /\ lastOp = "get_latest" /\ ret = "value"
    /\ Len(history) >= 2 /\ result[1] # history[1]

\* positions of the entries whose operation name is exactly name
MatchIdx(h, name) == { i \in 1..Len(h) : h[i].operation = name }

\* C5: find_by_operation(name) returns exactly the entries whose operation
\* name equals name (case-sensitive), in their original relative order, empty
\* when none match, without modifying the history.
C5_FindByOperation ==
    [][lastOp' = "find_by_operation"
         => /\ history' = history
            /\ ret' = "value"
            /\ Len(result') = Cardinality(MatchIdx(history, lastArg'))
            /\ \A i \in MatchIdx(history, lastArg') :
                  result'[Cardinality({ j \in MatchIdx(history, lastArg') : j <= i })]
                     = history[i]]_vars

\* two different matches were returned around an entry that does not match
C5_Witness ==
    /\ lastOp = "find_by_operation" /\ lastArg = "add"
    /\ Len(history) = 3 /\ history[2].operation # "add"
    /\ Len(result) = 2 /\ result[1] # result[2]

(***************************************************************************)
(* Properties of the persistence operations.                               *)
(***************************************************************************)

\* C6: save_to_csv followed directly by load_from_csv reconstructs the saved
\* history: same number of entries, same order, same operand values and
\* operation names.
C6_SaveLoadRoundTrip ==
    [][(lastOp = "save_to_csv" /\ ret = "True" /\ lastOp' = "load_from_csv")
         => (ret' = "True" /\ history' = history)]_vars

\* C7: whenever load_from_csv returns False, the history after the call is
\* the history before the call.
C7_FailedLoadKeepsHistory ==
    [][(lastOp' = "load_from_csv" /\ ret' = "False") => history' = history]_vars

\* the rows of the file whose Operation names a known operation, in file order
KnownRows(rows) == SelectSeq(rows, LAMBDA r : r.Operation \in operation_map)

\* the calculations those rows stand for, operands as read back from the file
RowCalcs(rows) ==
    [i \in 1..Len(KnownRows(rows)) |->
        Calculation(CellDecimal(KnownRows(rows)[i].First_Operand, NumericFirst(rows)),
                    CellDecimal(KnownRows(rows)[i].Second_Operand, NumericSecond(rows)),
                    KnownRows(rows)[i].Operation)]

\* C8: after a successful load_from_csv the history is exactly the file's
\* rows with a known operation name, in file order, whatever the history held
\* before; rows with other names are skipped and the Result column plays no
\* part.
C8_LoadReplaces ==
    [][(lastOp' = "load_from_csv" /\ ret' = "True")
         => history' = RowCalcs(file.rows)]_vars

\* a load succeeded on a two-row file and kept only the known row
C8_Witness ==
    /\ lastOp = "load_from_csv" /\ ret = "True"
    /\ Len(file.rows) = 2 /\ Len(history) = 1
    /\ file.rows[1].Operation \notin operation_map
    /\ file.rows[2].Result # ResultText(history[1])

\* C9: save_to_csv returns False and leaves the file alone when the data
\* directory is not writable or the history is empty; it returns True only
\* for a non-empty history whose rows were written.
C9_SaveFailure ==
    [][lastOp' = "save_to_csv"
         => /\ (dirState = "readonly" \/ history = <<>>)
                 => (ret' = "False" /\ file' = file)
            /\ ret' = "True"
                 => /\ history # <<>>
                    /\ file'.exists /\ file'.readable
                    /\ Len(file'.rows) = Len(history)]_vars

\* saving an empty history failed and an earlier file kept its rows
C9_Witness ==
    /\ lastOp = "save_to_csv" /\ ret = "False"
    /\ history = <<>> /\ dirState = "writable"
    /\ file.exists /\ file.rows # <<>>

\* C10: a successful save_to_csv leaves in the file exactly one row per
\* history entry, in history order, and nothing else; no save changes the
\* in-memory history.
C10_SaveOverwrites ==
    [][lastOp' = "save_to_csv"
         => /\ history' = history
            /\ ret' = "True"
                 => /\ file'.exists /\ file'.readable
                    /\ Len(file'.rows) = Len(history)
                    /\ \A i \in 1..Len(history) :
                          /\ file'.rows[i].First_Operand = NumText(history[i].a)
                          /\ file'.rows[i].Second_Operand = NumText(history[i].b)
                          /\ file'.rows[i].Operation = history[i].operation
                          /\ file'.rows[i].Result = ResultText(history[i])]_vars

\* a save wrote two different entries as two rows
C10_Witness ==
    /\ lastOp = "save_to_csv" /\ ret = "True"
    /\ Len(history) = 2 /\ Len(file.rows) = 2
    /\ file.rows[1] # file.rows[2]

(***************************************************************************)
(* Properties of the history command.                                      *)
(***************************************************************************)

\* the step is a call of the history command with this subcommand
IsSubcommand(op, args, name) == op = "history" /\ args # <<>> /\ Lower(args[1]) = name

\* C11: `history clear` leaves the persisted file in sync with the emptied
\* history: loading the file right after it brings no entry back.
C11_ClearSyncsFile ==
    [][(IsSubcommand(lastOp, lastArg, "clear") /\ lastOp' = "load_from_csv")
         => history' = <<>>]_vars

\* C12: a `history delete <index>` that removed an entry re-saved the history
\* and printed 'Deleted calculation at index <index> and updated file' or
\* 'Deleted calculation at index <index> but failed to update file'.
C12_DeleteResaves ==
    [][(IsSubcommand(lastOp', lastArg', "delete") /\ Len(history') < Len(history))
         => /\ Len(out') = 1
            /\ out'[1].text \in
                 { "Deleted calculation at index {index} and updated file",
                   "Deleted calculation at index {index} but failed to update file" }
            /\ out'[1].text = "Deleted calculation at index {index} and updated file"
                 => file' = CsvFile([i \in 1..Len(history') |-> SaveRow(history'[i])])]_vars

\* C13: a failing `history delete` leaves the history unchanged and names its
\* cause: no argument, a token that is not an integer (quoted in the
\* message), or an integer outside 0..len-1; it never raises.
C13_DeleteFailures ==
    [][IsSubcommand(lastOp', lastArg', "delete")
         => /\ ret' = "None"
            /\ Rest(lastArg') = <<>>
                 => /\ history' = history
                    /\ out' = <<Say("Error: Please provide an index to delete (e.g., 'delete 2')")>>
            /\ (Rest(lastArg') # <<>> /\ lastArg'[2] \notin IntTokens)
                 => /\ history' = history
                    /\ Len(out') = 1
                    /\ out'[1].text = "Error: '{args[0]}' is not a valid index. Please provide a number."
                    /\ out'[1].arg = lastArg'[2]
            /\ (Rest(lastArg') # <<>> /\ lastArg'[2] \in {"-1", "0", "1", "2", "01"})
                 => LET index == CASE lastArg'[2] = "-1" -> 0 - 1
                                   [] lastArg'[2] = "0" -> 0
                                   [] lastArg'[2] \in {"1", "01"} -> 1
                                   [] lastArg'[2] = "2" -> 2
                    IN  (index < 0 \/ index >= Len(history))
                          => /\ history' = history
                             /\ Len(out') = 1
                             /\ out'[1].text = "Error: Could not delete calculation at index {index}"
                             /\ out'[1].idx = index]_vars

\* `delete -1` was refused on a history of two entries
C13_Witness ==
    /\ lastOp = "history" /\ lastArg = <<"delete", "-1">>
    /\ Len(history) = 2
    /\ out = <<Msg("Error: Could not delete calculation at index {index}", "", 0 - 1, NoCalc)>>

\* C20: HistoryCommand.execute always returns normally after printing a
\* message, whatever the subcommand, the arguments and the stored entries.
C20_ExecuteNeverRaises ==
    [][lastOp' = "history" => (ret' = "None" /\ out' # <<>>)]_vars

(***************************************************************************)
(* Properties of the registry, the dispatcher and the loop.                *)
(***************************************************************************)

\* C14: execute_command on an unregistered name raises CommandNotFound
\* carrying that name and invokes no handler; on a registered name it invokes
\* that handler's execute once with the arguments, and what the handler
\* raises is what the caller gets.
C14_Dispatcher ==
    [][lastOp' = "dispatch"
         => LET command_name == line.tokens[1]
                args == Rest(line.tokens)
            IN  IF command_name \notin CommandNames \/ registry[command_name] = "none"
                THEN /\ raised' = Error("CommandNotFound", command_name)
                     /\ invoked' = <<>>
                ELSE /\ Len(invoked') = 1
                     /\ invoked'[1].handler = registry[command_name]
                     /\ invoked'[1].args = args
                     /\ raised'.kind = invoked'[1].raises]_vars

\* a mock handler was dispatched once and its exception reached the loop
C14_Witness ==
    /\ lastOp = "dispatch"
    /\ Len(invoked) = 1
    /\ invoked[1].handler = "SomeCommand"
    /\ invoked[1].raises = "Exception"
    /\ raised.kind = "Exception"

\* the registrations of name n that load_plugins makes: module i of found,
\* class j of that module
Registrations(n, found, failing) ==
    UNION { { <<i, j>> : j \in { k \in 1..Len(PluginClasses(found[i])) :
                                   PluginClasses(found[i])[k] \notin failing } }
            : i \in { m \in 1..Len(found) : /\ found[m] # "broken_plugin"
                                            /\ CommandName(found[m]) = n } }

Later(p, q) == p[1] > q[1] \/ (p[1] = q[1] /\ p[2] > q[2])

\* C15: after plugin loading each name maps to the handler of the most
\* recent registration for that name, also when one module registers
\* several classes under its derived name; a name never registered is absent.
C15_LastRegistrationWins ==
    [][lastOp' = "load_plugins"
         => \A n \in CommandNames :
              LET found == lastArg'.found
                  regs == Registrations(n, found, lastArg'.failing)
              IN  IF regs = {}
                  THEN registry'[n] = "none"
                  ELSE \E p \in regs :
                         /\ \A q \in regs : ~Later(q, p)
                         /\ registry'[n] = PluginClasses(found[p[1]])[p[2]]]_vars

\* both classes of working_plugin were registered, the second one stayed
C15_Witness ==
    /\ lastOp = "load_plugins"
    /\ lastArg.failing = {}
    /\ registry["working_plugin"] = "SomeCommand"

\* the lines that are the exit command
ExitLines == { Line(padded, <<t>>) : padded \in BOOLEAN, t \in {"exit", "Exit", "EXIT"} }

\* C16: whatever the dispatched command raises, and whatever unexpected
\* exception input() raises, a message is printed and the loop reads on; the
\* loop is left only by the exit command or end of input.
C16_ErrorsDoNotEndLoop ==
    [][/\ lastOp' = "dispatch"
            => /\ pc' = "reading"
               /\ raised'.kind # "none"
                    => /\ out' # <<>>
                       /\ out'[Len(out')].text \in
                            { "Unknown command: '{command_name}'. Type 'menu' to see available commands.",
                              "An error occurred while executing '{command_name}'. See logs for details." }
                       /\ out'[Len(out')].arg = line.tokens[1]
       /\ lastOp' = "start" => pc' = "reading"
       /\ (lastOp' = "read" /\ lastArg'.kind = "Exception")
            => /\ pc' = "reading"
               /\ out' = <<Say("An unexpected error occurred. Enter 'exit' to quit.")>>
       /\ pc' \notin {"new", "loaded", "reading", "dispatching"}
            => /\ pc' = "exited"
               /\ lastOp' = "read"
               /\ (lastArg'.kind = "EOFError" \/ lastArg' \in ExitLines)]_vars

\* a handler raised an exception other than KeyError and the loop reads on
C16_Witness ==
    /\ lastOp = "dispatch"
    /\ raised.kind = "Exception"
    /\ pc = "reading"

\* C17: a line whose first token is not a registered name prints
\* 'No such command: <name>', invokes no handler, leaves the history as it
\* was, and the loop reads the next line.
C17_UnknownCommand ==
    [][(lastOp' = "dispatch" /\ ~Registered(registry, line.tokens[1]))
         => /\ \E i \in 1..Len(out') :
                 /\ out'[i].text = "No such command: {command_name}"
                 /\ out'[i].arg = line.tokens[1]
            /\ invoked' = <<>>
            /\ history' = history
            /\ pc' = "reading"]_vars

\* C18 as stated: the exit command, an interrupt and end of input each end
\* the loop.
C18_ShutdownEvents ==
    [][(lastOp' = "read"
          /\ (lastArg'.kind \in {"KeyboardInterrupt", "EOFError"} \/ lastArg' \in ExitLines))
         => pc' = "exited"]_vars

\* C18: the exit command and end of input end the loop; an interrupt while
\* reading does not: it prints the 'Interrupted' line and the loop reads on.
C18_ShutdownAmended ==
    [][lastOp' = "read"
         => /\ (lastArg'.kind = "EOFError" \/ lastArg' \in ExitLines) => pc' = "exited"
            /\ lastArg'.kind = "KeyboardInterrupt"
                 => /\ pc' = "reading"
                    /\ out' = <<Say("\nInterrupted. Enter 'exit' to quit {self.app_name}.")>>]_vars

\* an interrupt was read and the loop is still reading
C18_Witness ==
    /\ lastOp = "read"
    /\ lastArg.kind = "KeyboardInterrupt"
    /\ pc = "reading"

\* C19: a read of the exit command (any letter case, blanks around it) or of
\* end of input ends the loop without a dispatch; a line is read only when
\* no command is pending, the only step from a pending command is its
\* dispatch, and a pending command is eventually dispatched.
C19_ExitTerminates ==
    /\ [][/\ (lastOp' = "read" /\ (lastArg'.kind = "EOFError" \/ lastArg' \in ExitLines))
               => /\ pc' = "exited"
                  /\ invoked' = <<>>
                  /\ history' = history
          /\ lastOp' = "read" => pc = "reading"
          /\ pc = "dispatching" => (lastOp' = "dispatch" /\ lastArg' = line)]_vars
    /\ (pc = "dispatching") ~> (pc = "reading" /\ lastOp = "dispatch")

\* the padded upper-case exit line ended the loop
C19_Witness ==
    /\ lastOp = "read"
    /\ lastArg = Line(TRUE, <<"EXIT">>)
    /\ pc = "exited"

(***************************************************************************)
(* Further properties of the store.                                        *)
(***************************************************************************)

\* C21: clear_history empties the history from any state and returns
\* normally; called again right after, it leaves the history empty; a
\* get_latest right after a clear returns None.
C21_ClearIdempotent ==
    [][/\ lastOp' = "clear_history" => (history' = <<>> /\ ret' = "None")
       /\ (lastOp = "clear_history" /\ lastOp' = "clear_history")
            => (history' = history /\ history' = <<>> /\ lastArg' = 0)
       /\ (lastOp = "clear_history" /\ lastOp' = "get_latest")
            => (ret' = "None" /\ result' = <<>>)]_vars

\* a clear has just emptied a history of three calculations
C21_Witness ==
    /\ lastOp = "clear_history"
    /\ lastArg = 3
    /\ history = <<>>

(***************************************************************************)
(* Further properties of the history command.                              *)
(***************************************************************************)

\* C22: `history load` on a missing file prints 'file not found' and leaves
\* the history as it was, the store's load not being called; on an existing
\* file it prints the path when the load succeeds and the generic failure
\* message when the load returns False, the history being what the store's
\* load leaves; it never raises.
C22_LoadSubcommand ==
    [][IsSubcommand(lastOp', lastArg', "load")
         => /\ ret' = "None"
            /\ file' = file
            /\ IF ~file.exists
               THEN /\ out' = <<Say("Error: File not found at {file_path}")>>
                    /\ history' = history
               ELSE /\ history' = LoadResult(history, file).history
                    /\ out' = IF LoadResult(history, file).ret = "True"
                                THEN <<Say("History loaded from {file_path}")>>
                                ELSE <<Say("Error occurred while loading history.")>>]_vars

\* a load of a file that is there but cannot be parsed was reported as failed
C22_Witness ==
    /\ lastOp = "history" /\ lastArg = <<"load">>
    /\ file.exists /\ ~file.readable
    /\ out = <<Say("Error occurred while loading history.")>>

\* C23: `history save` in a data directory that is not writable prints the
\* 'not accessible' error and writes nothing; otherwise it prints the path
\* after writing one row per entry, the 'nothing to save' message for an
\* empty history, and the error's message when building or writing the rows
\* raised; it never raises and never changes the history.
C23_SaveSubcommand ==
    [][IsSubcommand(lastOp', lastArg', "save")
         => /\ ret' = "None"
            /\ history' = history
            /\ dirState' = (IF dirState = "absent" THEN "writable" ELSE dirState)
            /\ IF dirState = "readonly"
               THEN /\ out' = <<Say("Error: Data directory not accessible")>>
                    /\ file' = file
               ELSE \/ /\ out' = <<Say("History saved to {file_path}")>>
                       /\ history # <<>>
                       /\ \A i \in 1..Len(history) : ~PerformRaises(history[i])
                       /\ file' = CsvFile([i \in 1..Len(history) |-> SaveRow(history[i])])
                    \/ /\ out' = <<Say("No history to save or error occurred.")>>
                       /\ history = <<>>
                       /\ file' = file
                    \/ /\ out' = <<Say("Error: {e}")>>
                       /\ history # <<>>
                       /\ file' = file]_vars

\* a save of a non-empty history was refused for the directory
C23_Witness ==
    /\ lastOp = "history" /\ lastArg = <<"save">>
    /\ dirState = "readonly" /\ history # <<>>
    /\ out = <<Say("Error: Data directory not accessible")>>

\* C24: `history filter <name>` prints a header and then exactly the entries
\* find_by_operation returns for the name, in history order, each numbered
\* from 0 within the filtered list; without a name it asks for one, without
\* a match it says so; it never raises and never changes the history.
C24_FilterSubcommand ==
    [][IsSubcommand(lastOp', lastArg', "filter")
         => /\ ret' = "None"
            /\ history' = history
            /\ IF Rest(lastArg') = <<>>
               THEN out' = <<Say("Error: Please provide an operation to filter by (e.g., 'filter add')")>>
               ELSE LET operation_name == Lower(lastArg'[2])
                        found == Matched(history, operation_name, 1)
                    IN  IF found = <<>>
                        THEN out' = <<Msg("No calculations found with operation '{operation_name}'.",
                                          operation_name, 0, NoCalc)>>
                        ELSE out' = <<Msg("Filtered History ({operation_name}):", operation_name, 0, NoCalc)>>
                                    \o [i \in 1..Len(found) |-> EntryLine(i - 1, found[i], operation_name)]]_vars

\* C26: the history command without a subcommand does what `history show`
\* does: for a non-empty history a header and then one line per entry, in
\* history order, numbered by the entry's position in the history; for an
\* empty history only the empty-history message.
C26_DefaultIsShow ==
    [][(lastOp' = "history" /\ lastArg' = <<>>)
         => /\ history' = history
            /\ out' = HistoryExecute(<<"show">>, history, file, dirState, FALSE).out
            /\ ret' = "None"
            /\ IF history = <<>>
               THEN out' = <<Say("No calculations in history.")>>
               ELSE out' = <<Say("Calculation History:")>>
                           \o [i \in 1..Len(history) |-> EntryLine(i - 1, history[i], history[i].operation)]]_vars

\* C29: `history delete` with no argument, or with more than one, removes
\* nothing.
C29_DeleteArity ==
    [][(IsSubcommand(lastOp', lastArg', "delete") /\ Len(Rest(lastArg')) # 1)
         => history' = history]_vars

\* the keys of subcommand_map
Subcommands == {"show", "clear", "save", "load", "delete", "analyze", "filter"}

\* C27: a subcommand that is not recognized prints the 'unknown subcommand'
\* message naming the token as it was typed, returns normally, and leaves
\* the history, the file and the data directory as they were.
C27_UnknownSubcommand ==
    [][(lastOp' = "history" /\ lastArg' # <<>> /\ Lower(lastArg'[1]) \notin Subcommands)
         => /\ out' = <<Msg("Unknown history subcommand: '{subcommand}'", lastArg'[1], 0, NoCalc)>>
            /\ ret' = "None"
            /\ UNCHANGED <<history, file, dirState>>]_vars

\* C27, amended: the message names the token in lower case.
C27_UnknownAmended ==
    [][(lastOp' = "history" /\ lastArg' # <<>> /\ Lower(lastArg'[1]) \notin Subcommands)
         => /\ out' = <<Msg("Unknown history subcommand: '{subcommand}'", Lower(lastArg'[1]), 0, NoCalc)>>
            /\ ret' = "None"
            /\ UNCHANGED <<history, file, dirState>>]_vars

\* an unknown subcommand typed in capitals was reported, with a history and
\* a saved file in place
C27_Witness ==
    /\ lastOp = "history" /\ lastArg = <<"UNDO">>
    /\ out = <<Msg("Unknown history subcommand: '{subcommand}'", "undo", 0, NoCalc)>>
    /\ history # <<>> /\ file.exists

(***************************************************************************)
(* Further properties of persistence and of the loop.                      *)
(***************************************************************************)

\* C28: ensure_data_directory creates a missing data directory and returns
\* True, returns True for a writable one, and for one that is there but not
\* writable returns False, raising nothing and creating nothing.
C28_EnsureDataDirectory ==
    [][lastOp' = "ensure_data_directory"
         => /\ dirState = "absent" => (ret' = "True" /\ dirState' = "writable")
            /\ dirState = "writable" => (ret' = "True" /\ dirState' = "writable")
            /\ dirState = "readonly" => (ret' = "False" /\ dirState' = "readonly")
            /\ UNCHANGED <<history, file>>]_vars

\* the directory was found not writable
C28_Witness ==
    /\ lastOp = "ensure_data_directory"
    /\ dirState = "readonly"
    /\ ret = "False"

\* C30: an interrupt while the loop waits for input prints the 'Interrupted'
\* line, dispatches nothing and leaves no command pending; the loop stays
\* in its reading position and its next step is another read.
C30_InterruptReadsOn ==
    [][/\ (lastOp' = "read" /\ lastArg'.kind = "KeyboardInterrupt")
            => /\ pc' = "reading"
               /\ out' = <<Say("\nInterrupted. Enter 'exit' to quit {self.app_name}.")>>
               /\ invoked' = <<>>
               /\ line' = NoLine
               /\ UNCHANGED <<history, file, dirState, registry>>
       /\ (lastOp = "read" /\ lastArg.kind = "KeyboardInterrupt") => lastOp' = "read"]_vars

\* an interrupt was answered with the 'Interrupted' line and nothing was
\* dispatched for it
C30_Witness ==
    /\ lastOp = "read"
    /\ lastArg = Raise("KeyboardInterrupt")
    /\ out = <<Say("\nInterrupted. Enter 'exit' to quit {self.app_name}.")>>
    /\ invoked = <<>>
    /\ line = NoLine
    /\ pc = "reading"

(***************************************************************************)
(* Properties of `history analyze`.                                        *)
(***************************************************************************)
\* the positions of the entries of h with operation op
EntriesWith(h, op) == { i \in 1..Len(h) : h[i].operation = op }

\* the lines of printed with the given text
LinesOf(printed, text) == { k \in 1..Len(printed) : printed[k].text = text }

RECURSIVE SumOf(_, _)
SumOf(h, i) == IF i > Len(h) THEN 0 ELSE ResultValue(h[i]) + SumOf(h, i + 1)

\* C25: `history analyze` on a non-empty history prints the number of
\* entries as the total; for every operation in the history one breakdown
\* line with the number of its entries and that number as a percentage of
\* the total to one decimal, the counts adding up to the total; and the
\* average, the largest and the smallest of the results to two decimals.
\* For <<5 add 3, 10 multiply 2>> it prints total 2, add 50.0%, multiply
\* 50.0%, average 14.00, maximum 20.00, minimum 8.00.  On an empty history
\* it prints only the 'nothing to analyze' message.  The history is never
\* changed.
C25_AnalyzeSubcommand ==
    [][IsSubcommand(lastOp', lastArg', "analyze")
         => /\ history' = history
            /\ ret' = "None"
            /\ IF history = <<>>
               THEN out' = <<Say("No calculations in history to analyze.")>>
               ELSE LET total == Len(history)
                        names == { history[i].operation : i \in 1..total }
                        breakdown == LinesOf(out', "  - {op}: {count} ({count/total_calculations*100:.1f}%)")
                    IN  /\ \E k \in 1..Len(out') :
                              out'[k] = Msg("Total calculations: {total_calculations}", "", total, NoCalc)
                        /\ { out'[k].arg : k \in breakdown } = names
                        /\ Cardinality(breakdown) = Cardinality(names)
                        /\ \A k \in breakdown :
                              /\ out'[k].idx = Cardinality(EntriesWith(history, out'[k].arg))
                              /\ 2 * total * out'[k].val - total <= 2000 * out'[k].idx
                              /\ 2000 * out'[k].idx <= 2 * total * out'[k].val + total
                        /\ \E k \in 1..Len(out') :
                              /\ out'[k].text = "  - Average result: {avg_result:.2f}"
                              /\ 2 * total * out'[k].val - total <= 2 * SumOf(history, 1)
                              /\ 2 * SumOf(history, 1) <= 2 * total * out'[k].val + total
                        /\ \E k \in 1..Len(out'), i \in 1..total :
                              /\ out'[k] = Stat("  - Maximum result: {max_result:.2f}", "", 0,
                                                ResultValue(history[i]))
                              /\ \A j \in 1..total : ResultValue(history[j]) <= ResultValue(history[i])
                        /\ \E k \in 1..Len(out'), i \in 1..total :
                              /\ out'[k] = Stat("  - Minimum result: {min_result:.2f}", "", 0,
                                                ResultValue(history[i]))
                              /\ \A j \in 1..total : ResultValue(history[j]) >= ResultValue(history[i])
            /\ history = <<Calculation(Five, Three, "add"), Calculation(Ten, Two, "multiply")>>
                 => out' = <<Say("\nHistory Analysis:"),
                             Msg("Total calculations: {total_calculations}", "", 2, NoCalc),
                             Say("\nOperations breakdown:"),
                             Stat("  - {op}: {count} ({count/total_calculations*100:.1f}%)", "add", 1, 500),
                             Stat("  - {op}: {count} ({count/total_calculations*100:.1f}%)", "multiply", 1, 500),
                             Say("\nResults statistics:"),
                             Stat("  - Average result: {avg_result:.2f}", "", 0, 1400),
                             Stat("  - Maximum result: {max_result:.2f}", "", 0, 2000),
                             Stat("  - Minimum result: {min_result:.2f}", "", 0, 800)>>]_vars

(***************************************************************************)
(* Further properties of the loop and of plugin loading.                   *)
(***************************************************************************)

\* C31: a blank line (empty, or blanks only) is followed by no dispatch and
\* changes nothing; at every point of a run the number of execute_command
\* calls is one, for the menu at start, plus the number of lines read that
\* were neither blank nor the exit command (less the one whose dispatch is
\* still to come).
C31_BlankLinesDispatchNothing ==
    [][/\ (lastOp' = "read" /\ lastArg'.kind = "line" /\ lastArg'.tokens = <<>>)
            => /\ pc' = "reading"
               /\ out' = <<>>
               /\ invoked' = <<>>
               /\ UNCHANGED <<history, file, dirState, registry, call_count, commands_read>>
       /\ pc' \in {"reading", "exited"} => call_count' = 1 + commands_read'
       /\ pc' = "dispatching" => call_count' + 1 = 1 + commands_read'
       /\ pc' \in {"new", "loaded"} => (call_count' = 0 /\ commands_read' = 0)
       /\ pc' # "crashed"]_vars

\* a line of blanks was read after two commands had been dispatched
C31_Witness ==
    /\ lastOp = "read"
    /\ lastArg = Line(TRUE, <<>>)
    /\ commands_read = 2
    /\ call_count = 3

\* C32: start dispatches 'menu' once, before any line is read, and no step
\* starts the application again; when that dispatch raises, the fallback
\* line is the last thing start prints and start raises nothing; either way
\* the loop is then reading, and an exit line read next ends it.
C32_MenuAtStart ==
    [][/\ lastOp' = "start"
            => /\ call_count = 0 /\ call_count' = 1
               /\ commands_read' = 0
               /\ pc' = "reading"
               /\ raised'.kind # "none"
                    => out'[Len(out')] = Say("Type 'help' or 'menu' to see available commands.")
               /\ raised'.kind = "none"
                    => /\ invoked' = <<Invocation(registry["menu"], <<>>, "none")>>
                       /\ \A k \in 1..Len(out') :
                            out'[k] # Say("Type 'help' or 'menu' to see available commands.")
       /\ lastOp' = "read" => call_count >= 1
       /\ (lastOp = "start" /\ lastOp' = "read" /\ lastArg' \in ExitLines) => pc' = "exited"]_vars

\* the menu could not be shown at start and the loop is reading
C32_Witness ==
    /\ lastOp = "start"
    /\ raised.kind # "none"
    /\ out[Len(out)] = Say("Type 'help' or 'menu' to see available commands.")
    /\ pc = "reading"

\* C33: whatever modules are discovered, load_plugins returns normally;
\* every discovered module is attempted; the module whose import raises and
\* each class whose construction raises are logged as errors and register
\* nothing; every other class is registered, under the name of its module
\* without the '_command' suffix; the summary counts the modules that
\* registered a command and the modules whose import raised.
C33_PluginIsolation ==
    [][lastOp' = "load_plugins"
         => LET found == lastArg'.found
                failing == lastArg'.failing
                names == { found[i] : i \in 1..Len(found) }
                logged == { plugin_log'[k] : k \in 1..Len(plugin_log') }
            IN  /\ pc' = "loaded"
                /\ \A m \in names : Log("info", "Attempting to load plugin: {plugin_name}", m, 0) \in logged
                /\ "broken_plugin" \in names
                     <=> Log("error", "Failed to load plugin {plugin_name}: {ie}", "broken_plugin", 0) \in logged
                /\ ("working_plugin" \in names /\ failing # {})
                     <=> Log("error", "Failed to register command {plugin_name}: {cmd_error}",
                             "working_plugin", 0) \in logged
                /\ \A n \in CommandNames : registry'[n] \notin failing
                /\ registry'["history"] = (IF "history_command" \in names THEN "HistoryCommand" ELSE "none")
                /\ registry'["menu"] = (IF "menu_command" \in names THEN "MenuCommand" ELSE "none")
                /\ registry'["subtract"] = (IF "subtract_command" \in names THEN "SubtractCommand" ELSE "none")
                /\ registry'["working_plugin"] =
                     (IF "working_plugin" \notin names THEN "none"
                      ELSE IF "SomeCommand" \notin failing THEN "SomeCommand"
                      ELSE IF "OtherCommand" \notin failing THEN "OtherCommand"
                      ELSE "none")
                /\ plugin_log'[Len(plugin_log')] =
                     Summary(Cardinality({ n \in CommandNames : registry'[n] # "none" }),
                             IF "broken_plugin" \in names THEN 1 ELSE 0)]_vars

\* an import and a construction failed, and the commands of the modules
\* after them were registered
C33_Witness ==
    /\ lastOp = "load_plugins"
    /\ lastArg.found = PluginNames
    /\ lastArg.failing = {"SomeCommand"}
    /\ registry["history"] = "HistoryCommand"
    /\ registry["working_plugin"] = "OtherCommand"
    /\ plugin_log[Len(plugin_log)] = Summary(4, 1)

(***************************************************************************)
(* Frame properties of the history command, and further properties of      *)
(* loading and filtering.                                                  *)
(***************************************************************************)

C35_EmptyLoadSucceeds ==
    [][(/\ lastOp' = "load_from_csv"
        /\ file.exists /\ file.readable
        /\ \A i \in 1..Len(file.rows) :
              file.rows[i].Operation \notin {"add", "subtract", "multiply", "divide"})
         => /\ ret' = "True"
            /\ history' = <<>>
            /\ file' = file]_vars

\* a file holding only rows of an unknown operation was loaded with success
C35_Witness ==
    /\ lastOp = "load_from_csv"
    /\ ret = "True"
    /\ history = <<>>
    /\ file.exists /\ file.readable
    /\ Len(file.rows) = 2
    /\ \A i \in 1..Len(file.rows) : file.rows[i].Operation = "power"

\* the operation of calc is named "add", in lower case
IsAdd(calc) == calc.operation = "add"

\* the calculations of the entry lines among printed
Listed(printed) ==
    LET entries == SelectSeq(printed, LAMBDA m : m.text = "{i}: {calc.a} {operation_name} {calc.b} = {result}")
    IN  [k \in 1..Len(entries) |-> entries[k].calc]

\* C36: the subcommand and the filter argument are lower-cased before use:
\* `history FILTER ADD` does what `history filter add` does and lists
\* exactly the entries whose operation is named "add"; no filter lists an
\* entry whose operation name has a capital letter; and the name printed on
\* every listed line is the argument in lower case.
C36_FilterLowerCases ==
    [][/\ (lastOp' = "history" /\ lastArg' = <<"FILTER", "ADD">>)
            => /\ out' = HistoryExecute(<<"filter", "add">>, history, file, dirState, FALSE).out
               /\ ret' = HistoryExecute(<<"filter", "add">>, history, file, dirState, FALSE).ret
               /\ Listed(out') = SelectSeq(history, IsAdd)
               /\ Listed(out') # <<>> => out'[1] = Msg("Filtered History ({operation_name}):", "add", 0, NoCalc)
       /\ (lastOp' = "history" /\ Len(lastArg') = 2 /\ lastArg'[1] \in {"filter", "Filter", "FILTER"})
            => \A k \in 1..Len(out') :
                 out'[k].text = "{i}: {calc.a} {operation_name} {calc.b} = {result}"
                   => /\ out'[k].calc.operation \notin {"Add", "ADD"}
                      /\ out'[k].arg = (IF lastArg'[2] \in {"Add", "ADD"} THEN "add" ELSE lastArg'[2])
                      /\ out'[k].arg = out'[k].calc.operation]_vars

\* `history FILTER ADD` listed the one entry named "add" of a history that
\* also holds an entry named "Add"
C36_Witness ==
    /\ lastOp = "history"
    /\ lastArg = <<"FILTER", "ADD">>
    /\ \E i \in 1..Len(history) : history[i].operation = "Add"
    /\ Len(out) = 2
    /\ out[2] = EntryLine(0, Calculation(Five, Three, "add"), "add")

====
